---- MODULE Spec2Model ----
(***************************************************************************)
(* Model of the MCP server manager of yolo-cli (src/src/services/mcp.ts):  *)
(* the connection registry, the namespaced tool index, the concurrent      *)
(* connection attempts of loadFromConfig, tool-call routing and cleanup.   *)
(* Every await of the source is a boundary between two actions; the code   *)
(* between two awaits runs to completion and is one action.                *)
(***************************************************************************)
EXTENDS Integers, Sequences, FiniteSets, TLC

(***************************************************************************)
(* Bounds of the model.                                                    *)
(***************************************************************************)
MaxLoads == 1
MaxCleanups == 1
MaxCalls == 1
MaxInst == 2

\* the number of TickMs steps for which a request is followed
MaxTicks == 3

\* cleanup calls of the handlers of App in flight at a time
MaxHandlers == 2

\* Default timeout for server operations (ms)
DEFAULT_TIMEOUT == 60000

\* a timeout a server entry configures (ms)
ConfiguredTimeout == 30000

(***************************************************************************)
(* Strings are sequences of characters, so that indexOf and slice are      *)
(* computed as String.prototype.indexOf / slice compute them.              *)
(***************************************************************************)
SEP == <<"_", "_">>

NameA == <<"a">>
NameAU == <<"a", "_">>
ServerNames == {NameA, NameAU}

ToolT == <<"t">>
ToolUT == <<"_", "t">>
ToolLists == {<<>>, <<ToolT>>}

Args == {"args0", "args1"}
Contents == {"content0"}

\* s.slice(from, to) with 0-based from (inclusive) and to (exclusive)
slice(s, from, to) == SubSeq(s, from + 1, to)

\* does sub occur in s at 0-based position i
OccursAt(s, sub, i) ==
    /\ i + Len(sub) <= Len(s)
    /\ \A j \in 1..Len(sub) : s[i + j] = sub[j]

\* s.indexOf(sub): 0-based position of the first occurrence, -1 when absent
indexOf(s, sub) ==
    IF \E i \in 0..Len(s) : OccursAt(s, sub, i)
    THEN CHOOSE i \in 0..Len(s) :
            /\ OccursAt(s, sub, i)
            /\ \A j \in 0..(i - 1) : ~OccursAt(s, sub, j)
    ELSE -1

\* `${name}__${tool.name}`
Namespaced(name, toolName) == name \o SEP \o toolName

NoSepName == <<"t">>
CallNames == {NoSepName} \cup {Namespaced(n, t) : n \in ServerNames, t \in {ToolT}}

(***************************************************************************)
(* Error objects thrown by the SDK or the spawn: an optional code and a    *)
(* message.  "none" stands for an absent (undefined) field.                *)
(***************************************************************************)
Errors == {[code |-> "ENOENT", message |-> "spawn ENOENT"],
           [code |-> "none", message |-> "Request timed out"]}
NoError == [code |-> "none", message |-> "none"]

MCP_ERROR_CODES == {"INVALID_CONFIG", "MISSING_COMMAND", "INVALID_ENV_VAR",
                    "COMMAND_NOT_FOUND", "SPAWN_FAILED", "CONNECT_TIMEOUT",
                    "INITIALIZE_FAILED", "SERVER_CRASHED", "DISCONNECTED",
                    "TOOL_NOT_FOUND", "TOOL_EXECUTION_FAILED", "TOOL_TIMEOUT"}

EmptyMap == [k \in {} |-> 0]

(***************************************************************************)
(* MergedConfig values handed to loadFromConfig: the keys of mcpServers in *)
(* Object.entries order, and the sources record (which may lack a key).    *)
(***************************************************************************)
Configs ==
    {[mcpServers |-> <<>>, sources |-> EmptyMap],
     [mcpServers |-> <<NameA>>, sources |-> (NameA :> "global")],
     [mcpServers |-> <<NameAU>>, sources |-> (NameAU :> "project")],
     [mcpServers |-> <<NameA, NameAU>>, sources |-> (NameA :> "project")]}

\* McpServerConfig.timeout of the entry with this name, 0 for undefined: the
\* entry of the second name configures one
ServerTimeout(name) == IF name = NameAU THEN ConfiguredTimeout ELSE 0

SeqRange(s) == {s[i] : i \in 1..Len(s)}

(***************************************************************************)
(* Configuration files (utils/mcp-config.ts).  A JSON value is a record:   *)
(* the literal null, or an object that has or lacks the mcpServers         *)
(* property; mcpServers keeps Object.entries order as a sequence of        *)
(* [name, config] entries.                                                 *)
(***************************************************************************)
Null == [type |-> "null", hasServers |-> FALSE, mcpServers |-> <<>>]

\* the document {}
EmptyObject == [type |-> "object", hasServers |-> FALSE, mcpServers |-> <<>>]

\* two McpServerConfig values: one with env, one without
EntryEnv == [command |-> "npx", env |-> "env"]

EntryPlain == [command |-> "node", env |-> "none"]

ServerEntries == {EntryEnv, EntryPlain}

ServerMaps ==
    {<<>>}
    \cup {<<[name |-> n, config |-> e]>> : n \in ServerNames, e \in ServerEntries}
    \cup {<<[name |-> NameA, config |-> e1], [name |-> NameAU, config |-> e2]>> :
                e1 \in ServerEntries, e2 \in ServerEntries}
    \cup {<<[name |-> NameAU, config |-> e1], [name |-> NameA, config |-> e2]>> :
                e1 \in ServerEntries, e2 \in ServerEntries}

McpConfigs == {[type |-> "object", hasServers |-> TRUE, mcpServers |-> m] : m \in ServerMaps}

JsonValues == {Null, EmptyObject} \cup McpConfigs

\* what fs.readFile and JSON.parse find at a path: no file (ENOENT), a file
\* that cannot be read, text that is no JSON, or text that parses to a value
Files ==
    {[kind |-> k, value |-> Null] : k \in {"absent", "unreadable", "garbage"}}
    \cup {[kind |-> "json", value |-> v] : v \in JsonValues}

\* variant: errors other than ENOENT leave loadConfigFile
loadConfigFileRethrows(file) ==
    IF file.kind = "json"
    THEN [pc |-> "fulfilled", value |-> file.value, warned |-> FALSE]
    ELSE IF file.kind = "absent"
    THEN [pc |-> "fulfilled", value |-> Null, warned |-> FALSE]
    ELSE [pc |-> "rejected", value |-> Null, warned |-> FALSE]

\* loadConfigFile: how its promise settles
loadConfigFile(file) ==
    IF file.kind = "json"
    THEN [pc |-> "fulfilled", value |-> file.value, warned |-> FALSE]
    ELSE IF file.kind = "absent"
    THEN [pc |-> "fulfilled", value |-> Null, warned |-> FALSE]
    ELSE [pc |-> "fulfilled", value |-> Null, warned |-> TRUE]

EmptyMerged == [mcpServers |-> <<>>, sources |-> EmptyMap]

EntryHas(m, k) == \E i \in 1..Len(m) : m[i].name = k

EntryGet(m, k) == m[CHOOSE i \in 1..Len(m) : m[i].name = k].config

\* obj[k] = v on an object kept in insertion order
EntrySet(m, k, v) ==
    IF EntryHas(m, k)
    THEN [m EXCEPT ![CHOOSE i \in 1..Len(m) : m[i].name = k] = [name |-> k, config |-> v]]
    ELSE Append(m, [name |-> k, config |-> v])

EntryKeys(m) == {m[i].name : i \in 1..Len(m)}

SourceSet(src, k, v) == [n \in DOMAIN src \cup {k} |-> IF n = k THEN v ELSE src[n]]

\* variant: a name that is already merged keeps its entry and its source
RECURSIVE AddServersKeepExisting(_, _, _)
AddServersKeepExisting(merged, entries, source) ==
    IF entries = <<>> THEN merged
    ELSE AddServersKeepExisting(
            IF EntryHas(merged.mcpServers, Head(entries).name) THEN merged
            ELSE [mcpServers |-> EntrySet(merged.mcpServers, Head(entries).name, Head(entries).config),
                  sources |-> SourceSet(merged.sources, Head(entries).name, source)],
            Tail(entries), source)

\* one of the two for loops of mergeConfigs
RECURSIVE AddServers(_, _, _)
AddServers(merged, entries, source) ==
    IF entries = <<>> THEN merged
    ELSE AddServers(
            [mcpServers |-> EntrySet(merged.mcpServers, Head(entries).name, Head(entries).config),
             sources |-> SourceSet(merged.sources, Head(entries).name, source)],
            Tail(entries), source)

\* `if (config)` of mergeConfigs
Truthy(v) == v.type # "null"

\* variant: the global servers are dropped when there is a project config
mergeConfigsProjectOnly(global, project) ==
    IF \/ Truthy(global) /\ ~global.hasServers
       \/ Truthy(project) /\ ~project.hasServers
    THEN [threw |-> TRUE, value |-> EmptyMerged]
    ELSE [threw |-> FALSE,
          value |-> IF Truthy(project)
                    THEN AddServers(EmptyMerged, project.mcpServers, "project")
                    ELSE IF Truthy(global)
                    THEN AddServers(EmptyMerged, global.mcpServers, "global")
                    ELSE EmptyMerged]

\* mergeConfigs: the MergedConfig it returns, or threw when
\* Object.entries is handed the undefined mcpServers of a document
mergeConfigs(global, project) ==
    IF \/ Truthy(global) /\ ~global.hasServers
       \/ Truthy(project) /\ ~project.hasServers
    THEN [threw |-> TRUE, value |-> EmptyMerged]
    ELSE LET afterGlobal == IF Truthy(global)
                            THEN AddServers(EmptyMerged, global.mcpServers, "global")
                            ELSE EmptyMerged
         IN [threw |-> FALSE,
             value |-> IF Truthy(project)
                       THEN AddServers(afterGlobal, project.mcpServers, "project")
                       ELSE afterGlobal]

\* the MergedConfig as loadFromConfig reads it: the keys of mcpServers and
\* the sources
LoadArgument(merged) ==
    [mcpServers |-> [j \in 1..Len(merged.mcpServers) |-> merged.mcpServers[j].name],
     sources |-> merged.sources]

Slots == {"global", "project"}

IdleSlot == [pc |-> "idle", value |-> Null, warned |-> FALSE]

IdleStartup ==
    [pc |-> "idle",
     files |-> [s \in Slots |-> [kind |-> "absent", value |-> Null]],
     slots |-> [s \in Slots |-> IdleSlot],
     merged |-> [threw |-> FALSE, value |-> EmptyMerged]]

(***************************************************************************)
(* validateConfig (utils/mcp-config.ts 145-160) and the JSON schema it     *)
(* compiles.  A document handed to it has or lacks mcpServers; an entry    *)
(* has or lacks command, env (of which the type of its value is kept) and  *)
(* timeout.                                                                *)
(***************************************************************************)

\* a timeout below the minimum
ShortTimeout == 500

\* the minimum of timeout
MinTimeout == 1000

\* a server name with a space in it
NameBad == <<"a", " ">>

\* the characters the naming pattern admits, of those the names are made of
PatternChars == {"a", "_", "-"}

ValidatedNames == {NameA, NameAU, NameBad}

ValidatedEntries ==
    {[hasCommand |-> c[1], command |-> c[2], envType |-> t,
      hasTimeout |-> m[1], timeout |-> m[2]] :
        c \in {<<FALSE, "">>, <<TRUE, "">>, <<TRUE, "npx">>},
        t \in {"none", "string", "number", "boolean"},
        m \in {<<FALSE, 0>>, <<TRUE, ShortTimeout>>, <<TRUE, MinTimeout>>,
               <<TRUE, ConfiguredTimeout>>}}

\* the documents validateConfig is applied to: {}, no server, one server
\* of any name, two servers
ValidatedConfigs ==
    {[hasServers |-> h, mcpServers |-> <<>>] : h \in BOOLEAN}
    \cup {[hasServers |-> TRUE, mcpServers |-> <<[name |-> n, config |-> e]>>] :
                n \in ValidatedNames, e \in ValidatedEntries}
    \cup {[hasServers |-> TRUE,
           mcpServers |-> <<[name |-> NameA, config |-> e1], [name |-> NameAU, config |-> e2]>>] :
                e1 \in ValidatedEntries, e2 \in ValidatedEntries}

SchemaError(server, field, keyword) ==
    [server |-> server, field |-> field, keyword |-> keyword]

\* the naming pattern of the schema
MatchesPattern(name) ==
    /\ Len(name) >= 1
    /\ \A i \in 1..Len(name) : name[i] \in PatternChars

\* variant: the schema has no minimum for timeout
SchemaErrorsNoMinimum(config) ==
    IF ~config.hasServers
    THEN {SchemaError(<<>>, "mcpServers", "required")}
    ELSE UNION {
        LET name == config.mcpServers[i].name
            entry == config.mcpServers[i].config
        IN {SchemaError(name, "name", "pattern") : x \in {1} \ {y \in {1} : MatchesPattern(name)}}
           \cup {SchemaError(name, "command", "required") : x \in {1} \ {y \in {1} : entry.hasCommand}}
           \cup {SchemaError(name, "command", "minLength") :
                    x \in {y \in {1} : entry.hasCommand /\ entry.command = ""}}
           \cup {SchemaError(name, "env", "type") :
                    x \in {y \in {1} : entry.envType \in {"number", "boolean"}}}
        : i \in 1..Len(config.mcpServers)}

\* every violation of the schema by a document: mcpServers is required;
\* every server name matches the pattern; command is required and not
\* empty; every env value is a string; timeout is at least MinTimeout
SchemaErrors(config) ==
    IF ~config.hasServers
    THEN {SchemaError(<<>>, "mcpServers", "required")}
    ELSE UNION {
        LET name == config.mcpServers[i].name
            entry == config.mcpServers[i].config
        IN {SchemaError(name, "name", "pattern") : x \in {1} \ {y \in {1} : MatchesPattern(name)}}
           \cup {SchemaError(name, "command", "required") : x \in {1} \ {y \in {1} : entry.hasCommand}}
           \cup {SchemaError(name, "command", "minLength") :
                    x \in {y \in {1} : entry.hasCommand /\ entry.command = ""}}
           \cup {SchemaError(name, "env", "type") :
                    x \in {y \in {1} : entry.envType \in {"number", "boolean"}}}
           \cup {SchemaError(name, "timeout", "minimum") :
                    x \in {y \in {1} : entry.hasTimeout /\ entry.timeout < MinTimeout}}
        : i \in 1..Len(config.mcpServers)}

\* variant: ajv stops at the first error
FirstErrorOnly == FALSE

\* the option of `new Ajv({allErrors: true})`
AllErrors == TRUE

\* validate(config) of the compiled schema: its result and validate.errors
Validate(config) ==
    LET errs == SchemaErrors(config)
    IN [valid |-> errs = {},
        errors |-> IF AllErrors \/ errs = {} THEN errs
                   ELSE {CHOOSE e \in errs : TRUE}]

\* validateConfig: {valid, errors}, one entry of errors for every element
\* of validate.errors
validateConfig(config) ==
    LET v == Validate(config)
    IN [valid |-> v.valid,
        errors |-> IF ~v.valid THEN v.errors ELSE {}]

(***************************************************************************)
(* servers, tools : the two Maps of the manager                            *)
(* inst           : the heap of McpServerInstance objects                  *)
(* loads          : the loadFromConfig calls in flight                     *)
(* cleanups       : the cleanup calls in flight                            *)
(* calls          : the callTool calls in flight                           *)
(* ret            : the value the step just taken returned to its caller   *)
(* startup        : App.initialize: the two configuration files, the       *)
(*                  results of loadConfigFile and of mergeConfigs          *)
(***************************************************************************)
VARIABLES servers, tools, inst, loads, cleanups, calls, ret, startup

vars == <<servers, tools, inst, loads, cleanups, calls, ret, startup>>

NoRet == [op |-> "none", val |-> 0]

(***************************************************************************)
(* Map<string, McpServerInstance> with insertion order: a sequence of      *)
(* [name, inst] entries; inst is the index of the instance in the heap.    *)
(***************************************************************************)
MapHas(m, k) == \E i \in 1..Len(m) : m[i].name = k

MapGet(m, k) == m[CHOOSE i \in 1..Len(m) : m[i].name = k].inst

MapSet(m, k, v) ==
    IF MapHas(m, k)
    THEN [m EXCEPT ![CHOOSE i \in 1..Len(m) : m[i].name = k] = [name |-> k, inst |-> v]]
    ELSE Append(m, [name |-> k, inst |-> v])

MapKeys(m) == {m[i].name : i \in 1..Len(m)}

MapValues(m) == {m[i].inst : i \in 1..Len(m)}

\* getServerStatus(name): the registered instance, 0 for undefined
getServerStatus(name) ==
    IF MapHas(servers, name) THEN MapGet(servers, name) ELSE 0

IdleLoad == [pc |-> "idle", config |-> [mcpServers |-> <<>>, sources |-> EmptyMap],
             att |-> EmptyMap, errors |-> <<>>, servers |-> <<>>]

IdleCleanup == [pc |-> "idle", targets |-> {}, pending |-> {}]

IdleCall == [pc |-> "idle", toolName |-> <<>>, args |-> "none",
             sentTo |-> 0, sentName |-> <<>>, sentArgs |-> "none", elapsed |-> 0]

Init ==
    /\ servers = <<>>
    /\ tools = EmptyMap
    /\ inst = <<>>
    /\ loads = [l \in 1..MaxLoads |-> IdleLoad]
    /\ cleanups = [c \in 1..MaxCleanups |-> IdleCleanup]
    /\ calls = [k \in 1..MaxCalls |-> IdleCall]
    /\ ret = NoRet
    /\ startup = IdleStartup

(***************************************************************************)
(* connectServer (mcp.ts 110-185).                                         *)
(***************************************************************************)

\* the instance as it stands at the first await (client.connect): created,
\* then connecting, no tools, source 'global'
NewInstance(name) ==
    [name |-> name, state |-> "connecting", tools |-> <<>>,
     source |-> "global", error |-> NoError, closeCalls |-> 0]

\* tools.map(...) of lines 158-165 for the instance with heap index id
NamespacedTools(name, id, list) ==
    [j \in 1..Len(list) |->
        [name |-> Namespaced(name, list[j]), originalName |-> list[j],
         serverName |-> name, server |-> id]]

\* instance.error of lines 174-181
InstanceError(name, e) ==
    [code |-> "CONNECT_TIMEOUT", message |-> e.message]

(***************************************************************************)
(* loadFromConfig (mcp.ts 53-105).                                         *)
(***************************************************************************)

\* config.sources[name] ?? 'global'
SourceOf(config, name) ==
    IF name \in DOMAIN config.sources THEN config.sources[name] ELSE "global"

\* variant: the error is recorded under the first configured name
ServerErrorOfFirstKey(config, name, e) ==
    [code |-> IF e.code # "none" THEN e.code ELSE "SPAWN_FAILED",
     message |-> e.message,
     serverName |-> config.mcpServers[1],
     configPath |-> IF name \in DOMAIN config.sources /\ config.sources[name] = "project"
                    THEN ".yolo/mcp.json"
                    ELSE "~/.config/yolo-cli/mcp.json"]

\* variant: every error carries the global config path
ServerErrorOfGlobalPath(config, name, e) ==
    [code |-> IF e.code # "none" THEN e.code ELSE "SPAWN_FAILED",
     message |-> e.message,
     serverName |-> name,
     configPath |-> "~/.config/yolo-cli/mcp.json"]

\* the McpServerError of lines 68-80
ServerErrorOf(config, name, e) ==
    [code |-> IF e.code # "none" THEN e.code ELSE "SPAWN_FAILED",
     message |-> e.message,
     serverName |-> name,
     configPath |-> IF name \in DOMAIN config.sources /\ config.sources[name] = "project"
                    THEN ".yolo/mcp.json"
                    ELSE "~/.config/yolo-cli/mcp.json"]

\* variant: the catch block rethrows
CatchRethrows == "rejected"

\* how the promise of one per-server arrow function settles after its catch
\* block (lines 67-87) has run: the block does not rethrow
CatchOutcome == "fulfilled"

\* Promise.all over the per-server promises: rejected as soon as one input
\* is rejected, fulfilled once all are fulfilled
PromiseAll(att) ==
    IF \E n \in DOMAIN att : att[n].pc = "rejected" THEN "rejected"
    ELSE IF \A n \in DOMAIN att : att[n].pc = "fulfilled" THEN "fulfilled"
    ELSE "pending"

(***************************************************************************)
(* getTools (mcp.ts 190-205).                                              *)
(***************************************************************************)
\* variant: every connection that did not fail is enumerated
EnumeratedUnlessFailed(i) == i.state # "failed"

\* the test of line 194
Enumerated(i) == i.state = "operating"

RECURSIVE FlattenTools(_, _)
FlattenTools(entries, heap) ==
    IF entries = <<>> THEN <<>>
    ELSE (IF Enumerated(heap[Head(entries).inst])
          THEN heap[Head(entries).inst].tools
          ELSE <<>>) \o FlattenTools(Tail(entries), heap)

\* the list getTools returns
GetToolsList(srv, heap) == FlattenTools(srv, heap)

\* this.tools after this.tools.set(tool.name, tool) for every listed tool
GetToolsIndex(idx, list) ==
    [k \in DOMAIN idx \cup {list[j].name : j \in 1..Len(list)} |->
        IF \E j \in 1..Len(list) : list[j].name = k
        THEN list[CHOOSE j \in 1..Len(list) :
                    /\ list[j].name = k
                    /\ \A j2 \in (j + 1)..Len(list) : list[j2].name # k]
        ELSE idx[k]]

\* loadFromConfig up to `await Promise.all`: every per-server arrow runs up
\* to `await client.connect(transport)` inside connectServer
LoadStartBody(l, config) ==
    /\ loads[l].pc = "idle"
    /\ l > 1 => loads[l - 1].pc # "idle"
    /\ Len(inst) + Len(config.mcpServers) <= MaxInst
    /\ LET names == config.mcpServers
           base == Len(inst)
       IN /\ inst' = inst \o [j \in 1..Len(names) |-> NewInstance(names[j])]
          /\ loads' = [loads EXCEPT ![l] =
                [pc |-> "running", config |-> config,
                 att |-> [n \in SeqRange(names) |->
                            [pc |-> "connect",
                             inst |-> base + (CHOOSE j \in 1..Len(names) : names[j] = n),
                             error |-> NoError, elapsed |-> 0]],
                 errors |-> <<>>, servers |-> <<>>]]
    /\ ret' = NoRet
    /\ UNCHANGED <<servers, tools, cleanups, calls>>

\* a caller invokes loadFromConfig(config)
LoadStart(l, config) ==
    /\ LoadStartBody(l, config)
    /\ UNCHANGED startup

\* client.connect resolved: state initialized, client.listTools() is awaited
ConnectResolve(l, n) ==
    /\ n \in DOMAIN loads[l].att
    /\ loads[l].att[n].pc = "connect"
    /\ inst' = [inst EXCEPT ![loads[l].att[n].inst].state = "initialized"]
    /\ loads' = [loads EXCEPT ![l].att[n].pc = "list",
                              ![l].att[n].elapsed = 0]
    /\ ret' = NoRet
    /\ UNCHANGED <<servers, tools, cleanups, calls, startup>>

\* variant: the tools are attached and the attempt then fails
ListResolvePartial(l, n, list) ==
    /\ n \in DOMAIN loads[l].att
    /\ loads[l].att[n].pc = "list"
    /\ LET id == loads[l].att[n].inst
       IN inst' = [inst EXCEPT ![id].tools = NamespacedTools(n, id, list),
                               ![id].state = "failed",
                               ![id].error = InstanceError(n, [code |-> "none", message |-> "Request timed out"])]
    /\ loads' = [loads EXCEPT ![l].att[n].pc = "thrown",
                              ![l].att[n].error = [code |-> "none", message |-> "Request timed out"],
                              ![l].att[n].elapsed = 0]
    /\ ret' = NoRet
    /\ UNCHANGED <<servers, tools, cleanups, calls, startup>>

\* client.listTools resolved: tools attached, state operating, the instance
\* is returned to the per-server arrow of loadFromConfig
ListResolve(l, n, list) ==
    /\ n \in DOMAIN loads[l].att
    /\ loads[l].att[n].pc = "list"
    /\ LET id == loads[l].att[n].inst
       IN inst' = [inst EXCEPT ![id].tools = NamespacedTools(n, id, list),
                               ![id].state = "operating"]
    /\ loads' = [loads EXCEPT ![l].att[n].pc = "returned",
                              ![l].att[n].elapsed = 0]
    /\ ret' = NoRet
    /\ UNCHANGED <<servers, tools, cleanups, calls, startup>>

\* client.connect or client.listTools threw: the catch block of connectServer
ConnectServerCatch(l, n, e) ==
    /\ n \in DOMAIN loads[l].att
    /\ loads[l].att[n].pc \in {"connect", "list"}
    /\ LET id == loads[l].att[n].inst
       IN inst' = [inst EXCEPT ![id].state = "failed",
                               ![id].error = InstanceError(n, e)]
    /\ loads' = [loads EXCEPT ![l].att[n].pc = "thrown",
                              ![l].att[n].error = e,
                              ![l].att[n].elapsed = 0]
    /\ ret' = NoRet
    /\ UNCHANGED <<servers, tools, cleanups, calls, startup>>

\* lines 64-66: the continuation of a successful connectServer
AttemptRegister(l, n) ==
    /\ n \in DOMAIN loads[l].att
    /\ loads[l].att[n].pc = "returned"
    /\ LET id == loads[l].att[n].inst
       IN /\ inst' = [inst EXCEPT ![id].source = SourceOf(loads[l].config, n)]
          /\ servers' = MapSet(servers, n, id)
          /\ loads' = [loads EXCEPT ![l].att[n].pc = "fulfilled",
                                    ![l].servers = Append(@, id)]
    /\ ret' = NoRet
    /\ UNCHANGED <<tools, cleanups, calls, startup>>

\* variant: the catch block registers the failed connection
AttemptCatchRegisters(l, n) ==
    /\ n \in DOMAIN loads[l].att
    /\ loads[l].att[n].pc = "thrown"
    /\ servers' = MapSet(servers, n, loads[l].att[n].inst)
    /\ loads' = [loads EXCEPT
            ![l].att[n].pc = CatchOutcome,
            ![l].errors = Append(@, ServerErrorOf(loads[l].config, n, loads[l].att[n].error))]
    /\ ret' = NoRet
    /\ UNCHANGED <<tools, inst, cleanups, calls, startup>>

\* lines 67-87: the catch block of the per-server arrow
AttemptCatch(l, n) ==
    /\ n \in DOMAIN loads[l].att
    /\ loads[l].att[n].pc = "thrown"
    /\ loads' = [loads EXCEPT
            ![l].att[n].pc = CatchOutcome,
            ![l].errors = Append(@, ServerErrorOf(loads[l].config, n, loads[l].att[n].error))]
    /\ ret' = NoRet
    /\ UNCHANGED <<servers, tools, inst, cleanups, calls, startup>>

\* lines 91-104: Promise.all has settled; on fulfilment getTools() runs and
\* the LoadResult is returned, on rejection loadFromConfig rejects while
\* the attempts still pending go on
LoadJoinBody(l) ==
    /\ loads[l].pc = "running"
    /\ PromiseAll(loads[l].att) # "pending"
    /\ LET list == GetToolsList(servers, inst)
           settled == PromiseAll(loads[l].att)
       IN /\ tools' = IF settled = "fulfilled" THEN GetToolsIndex(tools, list) ELSE tools
          /\ loads' = [loads EXCEPT ![l] =
                            IF settled = "fulfilled" THEN IdleLoad
                            ELSE [loads[l] EXCEPT !.pc = "rejected"]]
          /\ ret' = [op |-> "loadFromConfig",
                     val |-> [outcome |-> settled,
                              config |-> loads[l].config,
                              att |-> loads[l].att,
                              servers |-> loads[l].servers,
                              errors |-> loads[l].errors,
                              toolCount |-> IF settled = "fulfilled" THEN Len(list) ELSE 0]]
    /\ UNCHANGED <<servers, inst, cleanups, calls>>

\* loadFromConfig returns to a caller
LoadJoin(l) ==
    /\ LoadJoinBody(l)
    /\ UNCHANGED startup

\* a caller (the chat loop) invokes getTools()
GetTools ==
    /\ LET list == GetToolsList(servers, inst)
       IN /\ tools' = GetToolsIndex(tools, list)
          /\ ret' = [op |-> "getTools", val |-> list]
    /\ UNCHANGED <<servers, inst, loads, cleanups, calls, startup>>

(***************************************************************************)
(* cleanup (mcp.ts 302-329).                                               *)
(***************************************************************************)

\* the for loop: every registered connection's client.close() is invoked
CleanupStart(c) ==
    /\ cleanups[c].pc = "idle"
    /\ c > 1 => cleanups[c - 1].pc # "idle"
    /\ inst' = [i \in 1..Len(inst) |->
                    IF i \in MapValues(servers)
                    THEN [inst[i] EXCEPT !.closeCalls = @ + 1]
                    ELSE inst[i]]
    /\ cleanups' = [cleanups EXCEPT ![c] =
            [pc |-> "closing", targets |-> MapValues(servers),
             pending |-> MapValues(servers)]]
    /\ ret' = NoRet
    /\ UNCHANGED <<servers, tools, loads, calls, startup>>

\* client.close() resolved: line 312
CloseResolve(c, i) ==
    /\ cleanups[c].pc = "closing"
    /\ i \in cleanups[c].pending
    /\ inst' = [inst EXCEPT ![i].state = "closed"]
    /\ cleanups' = [cleanups EXCEPT ![c].pending = @ \ {i}]
    /\ ret' = NoRet
    /\ UNCHANGED <<servers, tools, loads, calls, startup>>

\* variant: the failure of one close leaves the closing promise, Promise.all
\* rejects and cleanup rejects before it clears the registries
CloseRethrow(c, i) ==
    /\ cleanups[c].pc = "closing"
    /\ i \in cleanups[c].pending
    /\ cleanups' = [cleanups EXCEPT ![c] = IdleCleanup]
    /\ ret' = [op |-> "cleanup",
               val |-> [outcome |-> "rejected", targets |-> cleanups[c].targets]]
    /\ UNCHANGED <<servers, tools, inst, loads, calls, startup>>

\* variant: a connection whose close failed is marked failed
CloseCatchMarksFailed(c, i) ==
    /\ cleanups[c].pc = "closing"
    /\ i \in cleanups[c].pending
    /\ inst' = [inst EXCEPT ![i].state = "failed"]
    /\ cleanups' = [cleanups EXCEPT ![c].pending = @ \ {i}]
    /\ ret' = NoRet
    /\ UNCHANGED <<servers, tools, loads, calls, startup>>

\* client.close() threw: the catch block of lines 313-317
CloseCatch(c, i) ==
    /\ cleanups[c].pc = "closing"
    /\ i \in cleanups[c].pending
    /\ cleanups' = [cleanups EXCEPT ![c].pending = @ \ {i}]
    /\ ret' = NoRet
    /\ UNCHANGED <<servers, tools, inst, loads, calls, startup>>

\* variant: the tool index is not cleared
StaleTools == tools

\* the registries as lines 327-328 leave them
ClearedServers == <<>>

ClearedTools == EmptyMap

\* lines 324-328: all closes settled, both registries are cleared
CleanupFinish(c) ==
    /\ cleanups[c].pc = "closing"
    /\ cleanups[c].pending = {}
    /\ servers' = ClearedServers
    /\ tools' = ClearedTools
    /\ cleanups' = [cleanups EXCEPT ![c] = IdleCleanup]
    /\ ret' = [op |-> "cleanup",
               val |-> [outcome |-> "resolved", targets |-> cleanups[c].targets]]
    /\ UNCHANGED <<inst, loads, calls, startup>>

(***************************************************************************)
(* callTool (mcp.ts 210-290).                                              *)
(***************************************************************************)
ErrorResult(code, message, toolName, args) ==
    [success |-> FALSE, code |-> code, message |-> message,
     toolName |-> toolName, arguments |-> args, content |-> "none",
     hasMetadata |-> FALSE, metaServerName |-> <<>>, metaToolName |-> <<>>]

\* lines 217, 230, 231
ParsedServerName(toolName) == slice(toolName, 0, indexOf(toolName, SEP))

ParsedToolName(toolName) == slice(toolName, indexOf(toolName, SEP) + 2, Len(toolName))

\* variant: no check of the separator
CallToolEarlyNoFormatCheck(toolName, args) ==
    LET serverName == ParsedServerName(toolName)
    IN IF ~MapHas(servers, serverName)
       THEN ErrorResult("TOOL_NOT_FOUND",
                        <<"Server not found", serverName>>, toolName, args)
       ELSE IF inst[MapGet(servers, serverName)].state # "operating"
       THEN ErrorResult("SERVER_CRASHED",
                        <<"is not operating", serverName,
                          inst[MapGet(servers, serverName)].state>>, toolName, args)
       ELSE ErrorResult("forward", <<>>, toolName, args)

\* variant: an unknown server is reported as a crashed one
CallToolEarlyUnknownAsCrashed(toolName, args) ==
    LET serverName == ParsedServerName(toolName)
    IN IF indexOf(toolName, SEP) = -1
       THEN ErrorResult("TOOL_NOT_FOUND",
                        <<"Invalid tool name format", toolName>>, toolName, args)
       ELSE IF ~MapHas(servers, serverName)
       THEN ErrorResult("SERVER_CRASHED",
                        <<"is not operating", serverName, "closed">>, toolName, args)
       ELSE IF inst[MapGet(servers, serverName)].state # "operating"
       THEN ErrorResult("SERVER_CRASHED",
                        <<"is not operating", serverName,
                          inst[MapGet(servers, serverName)].state>>, toolName, args)
       ELSE ErrorResult("forward", <<>>, toolName, args)

\* variant: no check of the connection's state
CallToolEarlyNoStateCheck(toolName, args) ==
    LET serverName == ParsedServerName(toolName)
    IN IF indexOf(toolName, SEP) = -1
       THEN ErrorResult("TOOL_NOT_FOUND",
                        <<"Invalid tool name format", toolName>>, toolName, args)
       ELSE IF ~MapHas(servers, serverName)
       THEN ErrorResult("TOOL_NOT_FOUND",
                        <<"Server not found", serverName>>, toolName, args)
       ELSE ErrorResult("forward", <<>>, toolName, args)

\* the checks of lines 218-258: the early result, or "forward"
CallToolEarly(toolName, args) ==
    LET serverName == ParsedServerName(toolName)
    IN IF indexOf(toolName, SEP) = -1
       THEN ErrorResult("TOOL_NOT_FOUND",
                        <<"Invalid tool name format", toolName>>, toolName, args)
       ELSE IF ~MapHas(servers, serverName)
       THEN ErrorResult("TOOL_NOT_FOUND",
                        <<"Server not found", serverName>>, toolName, args)
       ELSE IF inst[MapGet(servers, serverName)].state # "operating"
       THEN ErrorResult("SERVER_CRASHED",
                        <<"is not operating", serverName,
                          inst[MapGet(servers, serverName)].state>>, toolName, args)
       ELSE ErrorResult("forward", <<>>, toolName, args)

\* the request of lines 262-265 handed to server.client.callTool
ForwardedRequest(toolName, args) ==
    [pc |-> "awaiting", toolName |-> toolName, args |-> args,
     sentTo |-> MapGet(servers, ParsedServerName(toolName)),
     sentName |-> ParsedToolName(toolName), sentArgs |-> args, elapsed |-> 0]

\* the result of lines 269-277
SuccessResult(toolName, content) ==
    [success |-> TRUE, code |-> "none", message |-> <<>>,
     toolName |-> <<>>, arguments |-> "none", content |-> content,
     hasMetadata |-> TRUE,
     metaServerName |-> ParsedServerName(toolName),
     metaToolName |-> ParsedToolName(toolName)]

\* the synchronous part of callTool: an early return or a forwarded request
CallToolStart(k, toolName, args) ==
    /\ calls[k].pc = "idle"
    /\ k > 1 => calls[k - 1].pc # "idle"
    /\ LET early == CallToolEarly(toolName, args)
       IN IF early.code = "forward"
          THEN /\ calls' = [calls EXCEPT ![k] = ForwardedRequest(toolName, args)]
               /\ ret' = NoRet
          ELSE /\ calls' = calls
               /\ ret' = [op |-> "callTool",
                          val |-> [toolName |-> toolName, args |-> args,
                                   sentTo |-> 0, threw |-> FALSE, result |-> early]]
    /\ UNCHANGED <<servers, tools, inst, loads, cleanups, startup>>

\* lines 267-277: server.client.callTool resolved
CallToolResolve(k, content) ==
    /\ calls[k].pc = "awaiting"
    /\ calls' = [calls EXCEPT ![k] = IdleCall]
    /\ ret' = [op |-> "callTool",
               val |-> [toolName |-> calls[k].toolName, args |-> calls[k].args,
                        sentTo |-> calls[k].sentTo, threw |-> FALSE,
                        result |-> SuccessResult(calls[k].toolName, content)]]
    /\ UNCHANGED <<servers, tools, inst, loads, cleanups, startup>>

\* variant: the exception of the transport leaves callTool
CallToolRethrow(k, e) ==
    /\ calls[k].pc = "awaiting"
    /\ calls' = [calls EXCEPT ![k] = IdleCall]
    /\ ret' = [op |-> "callTool",
               val |-> [toolName |-> calls[k].toolName, args |-> calls[k].args,
                        sentTo |-> calls[k].sentTo, threw |-> TRUE,
                        result |-> ErrorResult("none", <<e.message>>, <<>>, "none")]]
    /\ UNCHANGED <<servers, tools, inst, loads, cleanups, startup>>

\* variant: a call that threw marks its connection failed
CallToolCatchMarksFailed(k, e) ==
    /\ calls[k].pc = "awaiting"
    /\ calls' = [calls EXCEPT ![k] = IdleCall]
    /\ inst' = [inst EXCEPT ![calls[k].sentTo].state = "failed"]
    /\ ret' = [op |-> "callTool",
               val |-> [toolName |-> calls[k].toolName, args |-> calls[k].args,
                        sentTo |-> calls[k].sentTo, threw |-> FALSE,
                        result |-> ErrorResult("TOOL_EXECUTION_FAILED", <<e.message>>,
                                               calls[k].toolName, calls[k].args)]]
    /\ UNCHANGED <<servers, tools, loads, cleanups, startup>>

\* lines 278-289: server.client.callTool threw
CallToolCatch(k, e) ==
    /\ calls[k].pc = "awaiting"
    /\ calls' = [calls EXCEPT ![k] = IdleCall]
    /\ ret' = [op |-> "callTool",
               val |-> [toolName |-> calls[k].toolName, args |-> calls[k].args,
                        sentTo |-> calls[k].sentTo, threw |-> FALSE,
                        result |-> ErrorResult("TOOL_EXECUTION_FAILED", <<e.message>>,
                                               calls[k].toolName, calls[k].args)]]
    /\ UNCHANGED <<servers, tools, inst, loads, cleanups, startup>>

Next ==
    \/ \E l \in 1..MaxLoads, config \in Configs : LoadStart(l, config)
    \/ \E l \in 1..MaxLoads, n \in ServerNames : ConnectResolve(l, n)
    \/ \E l \in 1..MaxLoads, n \in ServerNames, list \in ToolLists : ListResolve(l, n, list)
    \/ \E l \in 1..MaxLoads, n \in ServerNames, e \in Errors : ConnectServerCatch(l, n, e)
    \/ \E l \in 1..MaxLoads, n \in ServerNames : AttemptRegister(l, n)
    \/ \E l \in 1..MaxLoads, n \in ServerNames : AttemptCatch(l, n)
    \/ \E l \in 1..MaxLoads : LoadJoin(l)
    \/ GetTools
    \/ \E c \in 1..MaxCleanups : CleanupStart(c)
    \/ \E c \in 1..MaxCleanups, i \in 1..Len(inst) : CloseResolve(c, i)
    \/ \E c \in 1..MaxCleanups, i \in 1..Len(inst) : CloseCatch(c, i)
    \/ \E c \in 1..MaxCleanups : CleanupFinish(c)
    \/ \E k \in 1..MaxCalls, toolName \in CallNames, args \in Args : CallToolStart(k, toolName, args)
    \/ \E k \in 1..MaxCalls, content \in Contents : CallToolResolve(k, content)
    \/ \E k \in 1..MaxCalls, e \in Errors : CallToolCatch(k, e)

Spec == Init /\ [][Next]_vars

(***************************************************************************)
(* Time.  Every att and call record carries the milliseconds for which     *)
(* its awaited request (client.connect, client.listTools, client.callTool) *)
(* has been outstanding.  The manager starts no timer and passes no        *)
(* timeout to the client (mcp.ts 148, 154, 262), so time passing is a step *)
(* of the environment that no step of the manager is tied to.              *)
(***************************************************************************)

\* the requests the manager is awaiting
AwaitingAttempts ==
    {<<l, n>> \in (1..MaxLoads) \X ServerNames :
        n \in DOMAIN loads[l].att /\ loads[l].att[n].pc \in {"connect", "list"}}

AwaitingCalls == {k \in 1..MaxCalls : calls[k].pc = "awaiting"}

TickMs == ConfiguredTimeout

\* TickMs milliseconds pass while at least one request is outstanding
Tick ==
    /\ AwaitingAttempts # {} \/ AwaitingCalls # {}
    /\ \A p \in AwaitingAttempts : loads[p[1]].att[p[2]].elapsed < MaxTicks * TickMs
    /\ \A k \in AwaitingCalls : calls[k].elapsed < MaxTicks * TickMs
    /\ loads' = [l \in 1..MaxLoads |->
                    [loads[l] EXCEPT !.att =
                        [n \in DOMAIN loads[l].att |->
                            IF <<l, n>> \in AwaitingAttempts
                            THEN [loads[l].att[n] EXCEPT !.elapsed = @ + TickMs]
                            ELSE loads[l].att[n]]]]
    /\ calls' = [k \in 1..MaxCalls |->
                    IF k \in AwaitingCalls
                    THEN [calls[k] EXCEPT !.elapsed = @ + TickMs]
                    ELSE calls[k]]
    /\ ret' = NoRet
    /\ UNCHANGED <<servers, tools, inst, cleanups, startup>>

TimedNext ==
    \/ Next
    \/ Tick

TimedSpec == Init /\ [][TimedNext]_vars

(***************************************************************************)
(* App.initialize (components/App.tsx 42-166): the MCP part of startup.    *)
(***************************************************************************)

\* lines 59-60: discoverConfigs is called and both loadConfigFile calls
\* await fs.readFile
Initialize(globalFile, projectFile) ==
    /\ startup.pc = "idle"
    /\ startup' = [IdleStartup EXCEPT
            !.pc = "discover",
            !.files = [s \in Slots |-> IF s = "global" THEN globalFile ELSE projectFile],
            !.slots = [s \in Slots |-> [IdleSlot EXCEPT !.pc = "reading"]]]
    /\ ret' = NoRet
    /\ UNCHANGED <<servers, tools, inst, loads, cleanups, calls>>

\* fs.readFile of one slot settled: the rest of loadConfigFile runs
LoadConfigFileSettle(slot) ==
    /\ startup.pc = "discover"
    /\ startup.slots[slot].pc = "reading"
    /\ startup' = [startup EXCEPT !.slots[slot] = loadConfigFile(startup.files[slot])]
    /\ ret' = NoRet
    /\ UNCHANGED <<servers, tools, inst, loads, cleanups, calls>>

\* lines 60-65: Promise.all of discoverConfigs settled; mergeConfigs runs
\* and, if it yields a server, loadFromConfig is called; an exception goes
\* to the catch block of lines 158-165
InitializeMerge ==
    /\ startup.pc = "discover"
    /\ PromiseAll(startup.slots) # "pending"
    /\ \A s \in Slots : startup.slots[s].pc # "reading"
    /\ LET m == mergeConfigs(startup.slots["global"].value, startup.slots["project"].value)
       IN IF PromiseAll(startup.slots) = "rejected"
          THEN /\ startup' = [startup EXCEPT !.pc = "error"]
               /\ ret' = NoRet
               /\ UNCHANGED <<servers, tools, inst, loads, cleanups, calls>>
          ELSE IF m.threw
          THEN /\ startup' = [startup EXCEPT !.pc = "error", !.merged = m]
               /\ ret' = NoRet
               /\ UNCHANGED <<servers, tools, inst, loads, cleanups, calls>>
          ELSE IF Len(m.value.mcpServers) > 0
          THEN /\ startup' = [startup EXCEPT !.pc = "loading", !.merged = m]
               /\ LoadStartBody(1, LoadArgument(m.value))
          ELSE /\ startup' = [startup EXCEPT !.pc = "ready", !.merged = m]
               /\ ret' = NoRet
               /\ UNCHANGED <<servers, tools, inst, loads, cleanups, calls>>

\* lines 65-89: loadFromConfig returned to initialize
InitializeLoaded ==
    /\ startup.pc = "loading"
    /\ LoadJoinBody(1)
    /\ startup' = [startup EXCEPT
            !.pc = IF PromiseAll(loads[1].att) = "fulfilled" THEN "ready" ELSE "error"]

\* startup: initialize is the only caller of the manager
StartupNext ==
    \/ \E globalFile \in Files, projectFile \in Files : Initialize(globalFile, projectFile)
    \/ \E slot \in Slots : LoadConfigFileSettle(slot)
    \/ InitializeMerge
    \/ InitializeLoaded
    \/ \E n \in ServerNames : ConnectResolve(1, n)
    \/ \E n \in ServerNames, list \in ToolLists : ListResolve(1, n, list)
    \/ \E n \in ServerNames, e \in Errors : ConnectServerCatch(1, n, e)
    \/ \E n \in ServerNames : AttemptRegister(1, n)
    \/ \E n \in ServerNames : AttemptCatch(1, n)

StartupSpec == Init /\ [][StartupNext]_vars

(***************************************************************************)
(* validateConfig applied to a document by a caller of the loader.         *)
(***************************************************************************)
ValidateConfig(config) ==
    /\ ret' = [op |-> "validateConfig",
               val |-> [config |-> config, result |-> validateConfig(config)]]
    /\ UNCHANGED <<servers, tools, inst, loads, cleanups, calls, startup>>

ValidateNext == \E config \in ValidatedConfigs : ValidateConfig(config)

ValidateSpec == Init /\ [][ValidateNext]_vars

(***************************************************************************)
(* The cleanup callers of App (App.tsx 171-194, 243-246): the 'exit' and   *)
(* 'SIGTERM' handlers, the unmount function of the effect and onExit each  *)
(* call mcpManager.cleanup() on the one manager, and none of them waits    *)
(* for a cleanup another one has started. MaxHandlers of them are in       *)
(* flight at a time.                                                       *)
(***************************************************************************)
ExitInit ==
    /\ servers = <<>>
    /\ tools = EmptyMap
    /\ inst = <<>>
    /\ loads = [l \in 1..MaxLoads |-> IdleLoad]
    /\ cleanups = [c \in 1..MaxHandlers |-> IdleCleanup]
    /\ calls = [k \in 1..MaxCalls |-> IdleCall]
    /\ ret = NoRet
    /\ startup = IdleStartup

ExitNext ==
    \/ \E l \in 1..MaxLoads, config \in Configs : LoadStart(l, config)
    \/ \E l \in 1..MaxLoads, n \in ServerNames : ConnectResolve(l, n)
    \/ \E l \in 1..MaxLoads, n \in ServerNames, list \in ToolLists : ListResolve(l, n, list)
    \/ \E l \in 1..MaxLoads, n \in ServerNames, e \in Errors : ConnectServerCatch(l, n, e)
    \/ \E l \in 1..MaxLoads, n \in ServerNames : AttemptRegister(l, n)
    \/ \E l \in 1..MaxLoads, n \in ServerNames : AttemptCatch(l, n)
    \/ \E l \in 1..MaxLoads : LoadJoin(l)
    \/ \E c \in 1..MaxHandlers : CleanupStart(c)
    \/ \E c \in 1..MaxHandlers, i \in 1..Len(inst) : CloseResolve(c, i)
    \/ \E c \in 1..MaxHandlers, i \in 1..Len(inst) : CloseCatch(c, i)
    \/ \E c \in 1..MaxHandlers : CleanupFinish(c)

ExitSpec == ExitInit /\ [][ExitNext]_vars

(***************************************************************************)
(* The chat loop (part_011 583-626) and ToolExecutor.executeTool           *)
(* (services/tools.ts 57-118). The chat loop sets the executor's context,  *)
(* registers one executor per tool that getTools() returned, and hands     *)
(* every ToolCall of the model to executeTool. A parsed arguments object   *)
(* is a function from its keys to its values.                              *)
(***************************************************************************)

\* the jsonArguments of the ToolCalls: two objects and a text that does not
\* parse
ArgumentTexts == {"{}", "{\"x\":\"v\"}", "{"}

InvalidJson == [threw |-> TRUE, value |-> EmptyMap]

\* JSON.parse(argsJson) of tools.ts 76-77
JsonParse(text) ==
    IF text = "{}" THEN [threw |-> FALSE, value |-> EmptyMap]
    ELSE IF text = "{\"x\":\"v\"}" THEN [threw |-> FALSE, value |-> [k \in {"x"} |-> "v"]]
    ELSE InvalidJson

ToolCalls == [name : CallNames, arguments : ArgumentTexts]

\* the context the chat loop sets (part_011 583-586)
ToolContext == [workingDirectory |-> "cwd", requestApproval |-> "requestApproval"]

\* argsWithContext of tools.ts 93-96: {...args, _context: this.context}
ArgsWithContext(args) ==
    [k \in DOMAIN args \cup {"_context"} |->
        IF k = "_context" THEN ToolContext ELSE args[k]]

\* the names registered with the executor: those of the tools the getTools()
\* call just made has returned (part_011 590-623)
RegisteredTools == IF ret.op = "getTools"
                   THEN {ret.val[j].name : j \in 1..Len(ret.val)}
                   ELSE {}

ExecutorError(toolCall, message) ==
    [op |-> "executeTool", val |-> [toolCall |-> toolCall, error |-> message]]

\* executeTool(toolCall) up to the first await inside mcpManager.callTool:
\* the lookup, JSON.parse, the injection of the context, the executor of
\* part_011 602-603 and the synchronous part of callTool
ExecuteTool(k, toolCall) ==
    /\ ret.op = "getTools"
    /\ IF toolCall.name \notin RegisteredTools
       THEN /\ ret' = ExecutorError(toolCall, "Unknown tool")
            /\ UNCHANGED <<servers, tools, inst, loads, cleanups, calls, startup>>
       ELSE IF JsonParse(toolCall.arguments).threw
       THEN /\ ret' = ExecutorError(toolCall, "Invalid JSON arguments")
            /\ UNCHANGED <<servers, tools, inst, loads, cleanups, calls, startup>>
       ELSE CallToolStart(k, toolCall.name,
                          ArgsWithContext(JsonParse(toolCall.arguments).value))

ChatNext ==
    \/ \E l \in 1..MaxLoads, config \in Configs : LoadStart(l, config)
    \/ \E l \in 1..MaxLoads, n \in ServerNames : ConnectResolve(l, n)
    \/ \E l \in 1..MaxLoads, n \in ServerNames, list \in ToolLists : ListResolve(l, n, list)
    \/ \E l \in 1..MaxLoads, n \in ServerNames, e \in Errors : ConnectServerCatch(l, n, e)
    \/ \E l \in 1..MaxLoads, n \in ServerNames : AttemptRegister(l, n)
    \/ \E l \in 1..MaxLoads, n \in ServerNames : AttemptCatch(l, n)
    \/ \E l \in 1..MaxLoads : LoadJoin(l)
    \/ GetTools
    \/ \E k \in 1..MaxCalls, toolCall \in ToolCalls : ExecuteTool(k, toolCall)
    \/ \E k \in 1..MaxCalls, content \in Contents : CallToolResolve(k, content)
    \/ \E k \in 1..MaxCalls, e \in Errors : CallToolCatch(k, e)

ChatSpec == Init /\ [][ChatNext]_vars

(***************************************************************************)
(* connectServer called by a caller other than loadFromConfig: the method  *)
(* is part of IMcpServerManager (mcp.ts 26-36). The call occupies a slot   *)
(* of `loads` with pc "direct"; its steps inside connectServer are         *)
(* ConnectResolve, ListResolve and ConnectServerCatch.                     *)
(***************************************************************************)

\* a caller invokes connectServer(name, config): up to `await client.connect`
ConnectServerStart(l, name) ==
    /\ loads[l].pc = "idle"
    /\ l > 1 => loads[l - 1].pc # "idle"
    /\ Len(inst) + 1 <= MaxInst
    /\ inst' = Append(inst, NewInstance(name))
    /\ loads' = [loads EXCEPT ![l] =
            [pc |-> "direct",
             config |-> [mcpServers |-> <<name>>, sources |-> EmptyMap],
             att |-> [n \in {name} |->
                        [pc |-> "connect", inst |-> Len(inst) + 1,
                         error |-> NoError, elapsed |-> 0]],
             errors |-> <<>>, servers |-> <<>>]]
    /\ ret' = NoRet
    /\ UNCHANGED <<servers, tools, cleanups, calls, startup>>

\* variant: connectServer registers the connection it returns
ConnectServerReturnRegisters(l, n) ==
    /\ loads[l].pc = "direct"
    /\ n \in DOMAIN loads[l].att
    /\ loads[l].att[n].pc \in {"returned", "thrown"}
    /\ servers' = IF loads[l].att[n].pc = "returned"
                  THEN MapSet(servers, n, loads[l].att[n].inst)
                  ELSE servers
    /\ loads' = [loads EXCEPT ![l] = IdleLoad]
    /\ ret' = [op |-> "connectServer",
               val |-> [name |-> n, inst |-> loads[l].att[n].inst,
                        threw |-> loads[l].att[n].pc = "thrown",
                        error |-> loads[l].att[n].error]]
    /\ UNCHANGED <<tools, inst, cleanups, calls, startup>>

\* `return instance` (line 169) or `throw error` (line 183) reaches the caller
ConnectServerReturn(l, n) ==
    /\ loads[l].pc = "direct"
    /\ n \in DOMAIN loads[l].att
    /\ loads[l].att[n].pc \in {"returned", "thrown"}
    /\ loads' = [loads EXCEPT ![l] = IdleLoad]
    /\ ret' = [op |-> "connectServer",
               val |-> [name |-> n, inst |-> loads[l].att[n].inst,
                        threw |-> loads[l].att[n].pc = "thrown",
                        error |-> loads[l].att[n].error]]
    /\ UNCHANGED <<servers, tools, inst, cleanups, calls, startup>>

DirectNext ==
    \/ \E l \in 1..MaxLoads, name \in ServerNames : ConnectServerStart(l, name)
    \/ \E l \in 1..MaxLoads, n \in ServerNames : ConnectServerReturn(l, n)
    \/ \E l \in 1..MaxLoads, config \in Configs : LoadStart(l, config)
    \/ \E l \in 1..MaxLoads, n \in ServerNames : ConnectResolve(l, n)
    \/ \E l \in 1..MaxLoads, n \in ServerNames, list \in ToolLists : ListResolve(l, n, list)
    \/ \E l \in 1..MaxLoads, n \in ServerNames, e \in Errors : ConnectServerCatch(l, n, e)
    \/ \E l \in 1..MaxLoads, n \in ServerNames :
            loads[l].pc = "running" /\ AttemptRegister(l, n)
    \/ \E l \in 1..MaxLoads, n \in ServerNames :
            loads[l].pc = "running" /\ AttemptCatch(l, n)
    \/ \E l \in 1..MaxLoads : LoadJoin(l)
    \/ GetTools
    \/ \E c \in 1..MaxCleanups : CleanupStart(c)
    \/ \E c \in 1..MaxCleanups, i \in 1..Len(inst) : CloseResolve(c, i)
    \/ \E c \in 1..MaxCleanups, i \in 1..Len(inst) : CloseCatch(c, i)
    \/ \E c \in 1..MaxCleanups : CleanupFinish(c)
    \/ \E k \in 1..MaxCalls, toolName \in CallNames, args \in Args : CallToolStart(k, toolName, args)
    \/ \E k \in 1..MaxCalls, content \in Contents : CallToolResolve(k, content)
    \/ \E k \in 1..MaxCalls, e \in Errors : CallToolCatch(k, e)

DirectSpec == Init /\ [][DirectNext]_vars

(***************************************************************************)
(* Properties.                                                             *)
(***************************************************************************)
LoadReturned == ret.op = "loadFromConfig"

ConfigKeys(v) == SeqRange(v.config.mcpServers)

\* the names whose connectServer call threw
FailedNames(v) == {n \in DOMAIN v.att : v.att[n].error # NoError}

ErrorsNaming(v, n) == {j \in 1..Len(v.errors) : v.errors[j].serverName = n}

ServersNaming(v, n) == {j \in 1..Len(v.servers) : inst[v.servers[j]].name = n}

\* C1: a LoadResult of N configured servers of which k attempts failed has
\* exactly k errors and N-k servers, every configured name is in exactly one
\* of the two lists, and every error names a key of the config
C1_FailureIsolation ==
    (LoadReturned /\ ret.val.outcome = "fulfilled") =>
        LET v == ret.val
            N == Cardinality(ConfigKeys(v))
            k == Cardinality(FailedNames(v))
        IN /\ Len(v.errors) = k
           /\ Len(v.servers) = N - k
           /\ \A j \in 1..Len(v.errors) : v.errors[j].serverName \in ConfigKeys(v)
           /\ \A n \in ConfigKeys(v) :
                /\ Cardinality(ErrorsNaming(v, n)) + Cardinality(ServersNaming(v, n)) = 1
                /\ (n \in FailedNames(v)) <=> (ErrorsNaming(v, n) # {})

\* a load of two servers returned one error and one server
C1_Witness ==
    /\ LoadReturned
    /\ Len(ret.val.config.mcpServers) = 2
    /\ Len(ret.val.errors) = 1
    /\ Len(ret.val.servers) = 1

\* C2: loadFromConfig never rejects; when it returns every attempt has
\* settled, having registered its connection or recorded its error, and a
\* succeeded attempt is listed whatever became of its siblings
C2_AllSettleJoin ==
    /\ \A l \in 1..MaxLoads : loads[l].pc # "rejected"
    /\ LoadReturned =>
        /\ ret.val.outcome = "fulfilled"
        /\ \A n \in ConfigKeys(ret.val) :
            /\ ret.val.att[n].pc = "fulfilled"
            /\ IF ret.val.att[n].error = NoError
               THEN ret.val.att[n].inst \in SeqRange(ret.val.servers)
               ELSE ErrorsNaming(ret.val, n) # {}
    /\ \A l \in 1..MaxLoads : \A n \in DOMAIN loads[l].att :
        (loads[l].att[n].pc = "fulfilled" /\ loads[l].att[n].error = NoError)
            => loads[l].att[n].inst \in SeqRange(loads[l].servers)

\* a load returned in which one attempt failed and its sibling is registered
C2_Witness ==
    /\ LoadReturned
    /\ \E n, m \in ConfigKeys(ret.val) :
        /\ ret.val.att[n].error # NoError
        /\ ret.val.att[m].error = NoError
        /\ MapHas(servers, m)
        /\ MapGet(servers, m) = ret.val.att[m].inst

\* the tools of the registered connections that are operating
OperatingTools ==
    UNION {SeqRange(inst[i].tools) : i \in {j \in MapValues(servers) : inst[j].state = "operating"}}

\* C3: getTools returns exactly the tools of the registered connections in
\* state operating, each once; nothing else contributes, and an empty
\* registry gives the empty list
C3_GetToolsOperatingOnly ==
    ret.op = "getTools" =>
        /\ SeqRange(ret.val) = OperatingTools
        /\ Len(ret.val) = Cardinality(OperatingTools)
        /\ \A j \in 1..Len(ret.val) :
            /\ ret.val[j].server \in MapValues(servers)
            /\ inst[ret.val[j].server].state = "operating"
        /\ servers = <<>> => ret.val = <<>>

\* getTools returned tools while a registered connection with tools is closed
C3_Witness ==
    /\ ret.op = "getTools"
    /\ ret.val # <<>>
    /\ \E i \in MapValues(servers) : inst[i].state = "closed" /\ inst[i].tools # <<>>

\* the tool is in the namespaced-name index
Indexed(t) == t.name \in DOMAIN tools /\ tools[t.name] = t

\* C4: in every reachable state a tool is in the tool index if and only if
\* its owning connection is in state operating
C4_IndexIffOperating ==
    \A i \in 1..Len(inst) : \A j \in 1..Len(inst[i].tools) :
        Indexed(inst[i].tools[j]) <=> inst[i].state = "operating"

CallReturned == ret.op = "callTool"

\* C5: callTool never throws: every call returns a ToolResult, and an
\* exception of the transport is returned as TOOL_EXECUTION_FAILED
C5_CallToolNeverThrows ==
    CallReturned =>
        /\ ~ret.val.threw
        /\ ret.val.result.success \in BOOLEAN
        /\ ret.val.result.success => ret.val.result.code = "none"
        /\ ~ret.val.result.success => ret.val.result.code \in MCP_ERROR_CODES
        /\ (ret.val.sentTo # 0 /\ ~ret.val.result.success) =>
            /\ ret.val.result.code = "TOOL_EXECUTION_FAILED"
            /\ ret.val.result.toolName = ret.val.toolName
            /\ ret.val.result.arguments = ret.val.args

\* a forwarded call whose transport threw has returned
C5_Witness ==
    /\ CallReturned
    /\ ret.val.sentTo # 0
    /\ ret.val.result.code = "TOOL_EXECUTION_FAILED"

\* C6: callTool(T.name, args) for a tool T that getTools returns forwards
\* T.originalName and args to the client of T.server, and a resolved response
\* is returned as success with metadata naming that server and tool
C6_RoutesToDiscoverer ==
    /\ [][\A k \in 1..MaxCalls, args \in Args, j \in 1..Len(GetToolsList(servers, inst)) :
        LET T == GetToolsList(servers, inst)[j]
        IN CallToolStart(k, T.name, args) =>
            /\ calls'[k].pc = "awaiting"
            /\ calls'[k].sentTo = T.server
            /\ calls'[k].sentName = T.originalName
            /\ calls'[k].sentArgs = args]_vars
    /\ [][\A k \in 1..MaxCalls, content \in Contents :
            CallToolResolve(k, content) =>
                /\ ret'.op = "callTool"
                /\ ret'.val.result.success
                /\ ret'.val.result.content = content
                /\ ret'.val.result.hasMetadata
                /\ ret'.val.result.metaServerName = inst[calls[k].sentTo].name
                /\ ret'.val.result.metaToolName = calls[k].sentName]_vars

\* C7: a name without the separator is answered TOOL_NOT_FOUND (invalid
\* format); nothing is forwarded, no connection is attempted, and registry,
\* index and connections are unchanged
C7_NoSeparatorRejected ==
    [][\A k \in 1..MaxCalls, toolName \in CallNames, args \in Args :
        (CallToolStart(k, toolName, args) /\ indexOf(toolName, SEP) = -1) =>
            /\ ret'.op = "callTool"
            /\ ret'.val.sentTo = 0
            /\ ~ret'.val.result.success
            /\ ret'.val.result.code = "TOOL_NOT_FOUND"
            /\ ret'.val.result.message = <<"Invalid tool name format", toolName>>
            /\ UNCHANGED <<servers, tools, inst, loads, cleanups, calls>>]_vars

\* a call with a name without separator has returned while a connection is
\* registered
C7_Witness ==
    /\ CallReturned
    /\ indexOf(ret.val.toolName, SEP) = -1
    /\ servers # <<>>

\* C8: a name whose prefix is no key of the registry is answered
\* TOOL_NOT_FOUND (server not found) with the full name in error.toolName,
\* and nothing is forwarded
C8_UnknownServerRejected ==
    [][\A k \in 1..MaxCalls, toolName \in CallNames, args \in Args :
        (/\ CallToolStart(k, toolName, args)
         /\ indexOf(toolName, SEP) # -1
         /\ ParsedServerName(toolName) \notin MapKeys(servers)) =>
            /\ ret'.op = "callTool"
            /\ ret'.val.sentTo = 0
            /\ ~ret'.val.result.success
            /\ ret'.val.result.code = "TOOL_NOT_FOUND"
            /\ ret'.val.result.message = <<"Server not found", ParsedServerName(toolName)>>
            /\ ret'.val.result.toolName = toolName
            /\ calls' = calls]_vars

\* a call addressed to an unregistered server has returned while another
\* server is registered
C8_Witness ==
    /\ CallReturned
    /\ indexOf(ret.val.toolName, SEP) # -1
    /\ ParsedServerName(ret.val.toolName) \notin MapKeys(servers)
    /\ ret.val.result.code = "TOOL_NOT_FOUND"
    /\ servers # <<>>

\* C9: a call addressed to a registered connection that is not operating is
\* answered SERVER_CRASHED naming the state, and is not forwarded
C9_NotOperatingRejected ==
    [][\A k \in 1..MaxCalls, toolName \in CallNames, args \in Args :
        (/\ CallToolStart(k, toolName, args)
         /\ indexOf(toolName, SEP) # -1
         /\ ParsedServerName(toolName) \in MapKeys(servers)
         /\ inst[MapGet(servers, ParsedServerName(toolName))].state # "operating") =>
            /\ ret'.op = "callTool"
            /\ ret'.val.sentTo = 0
            /\ ~ret'.val.result.success
            /\ ret'.val.result.code = "SERVER_CRASHED"
            /\ ret'.val.result.message =
                    <<"is not operating", ParsedServerName(toolName),
                      inst[MapGet(servers, ParsedServerName(toolName))].state>>
            /\ calls' = calls]_vars

\* a call to a connection closed by a cleanup still in flight has returned
C9_Witness ==
    /\ CallReturned
    /\ ret.val.result.code = "SERVER_CRASHED"
    /\ \E c \in 1..MaxCleanups : cleanups[c].pc = "closing"
    /\ \E i \in MapValues(servers) : inst[i].state = "closed"

\* C10: a cleanup that completes leaves registry and index empty, so that
\* getTools() is empty and getServerStatus undefined for every name; a
\* cleanup call made on that state closes nothing and changes nothing
C10_CleanupIdempotent ==
    [][\A c \in 1..MaxCleanups :
        /\ CleanupFinish(c) =>
            /\ ret'.op = "cleanup"
            /\ servers' = <<>>
            /\ tools' = EmptyMap
            /\ GetToolsList(servers', inst') = <<>>
            /\ \A n \in ServerNames : ~MapHas(servers', n)
        /\ ((CleanupStart(c) \/ CleanupFinish(c)) /\ servers = <<>> /\ tools = EmptyMap) =>
            /\ cleanups'[c].pending = {}
            /\ UNCHANGED <<servers, tools, inst>>]_vars

\* a cleanup that found nothing to close has returned after an earlier
\* cleanup closed a connection
C10_Witness ==
    /\ ret.op = "cleanup"
    /\ ret.val.targets = {}
    /\ servers = <<>>
    /\ \E i \in 1..Len(inst) : inst[i].state = "closed"

\* C11: cleanup invokes close on every connection of the registry whatever
\* its state; a close that fails is swallowed: cleanup goes on, the other
\* pending closes stay pending and can still settle; cleanup never rejects,
\* and when it returns registry and tool index are empty
C11_CleanupClosesAll ==
    [][/\ \A c \in 1..MaxCleanups :
            /\ CleanupStart(c) =>
                /\ cleanups'[c].targets = MapValues(servers)
                /\ cleanups'[c].pending = MapValues(servers)
                /\ \A i \in MapValues(servers) : inst'[i].closeCalls = inst[i].closeCalls + 1
            /\ \A i \in 1..Len(inst) :
                CloseCatch(c, i) =>
                    /\ ret'.op # "cleanup"
                    /\ cleanups'[c].pc = "closing"
                    /\ cleanups'[c].pending = cleanups[c].pending \ {i}
                    /\ UNCHANGED <<servers, tools>>
       /\ ret'.op = "cleanup" =>
            /\ ret'.val.outcome = "resolved"
            /\ \A i \in ret'.val.targets : inst'[i].closeCalls >= 1
            /\ servers' = <<>>
            /\ tools' = EmptyMap]_vars

\* a cleanup of two connections has returned: the close of one failed and
\* left it operating, the other one is closed
C11_Witness ==
    /\ ret.op = "cleanup"
    /\ ret.val.outcome = "resolved"
    /\ \E i, j \in ret.val.targets :
        /\ inst[i].state = "closed"
        /\ inst[j].state = "operating"
    /\ servers = <<>>
    /\ tools = EmptyMap

\* the state changes of McpServerState the lifecycle allows
LifecycleSteps ==
    {<<"connecting", "initialized">>, <<"initialized", "operating">>,
     <<"connecting", "failed">>, <<"initialized", "failed">>,
     <<"connecting", "closed">>, <<"initialized", "closed">>,
     <<"operating", "closed">>}

\* C12: a connection starts connecting (having left created in the same
\* step) and every later change of its state is one of the lifecycle's
\* steps: no state is skipped or revisited, failed is entered only from
\* connecting or initialized, and failed and closed are never left
C12_LifecycleOrder ==
    [][/\ Len(inst') >= Len(inst)
       /\ \A i \in 1..Len(inst) :
            inst'[i].state # inst[i].state =>
                <<inst[i].state, inst'[i].state>> \in LifecycleSteps
       /\ \A i \in (Len(inst) + 1)..Len(inst') : inst'[i].state = "connecting"]_vars

\* one connection has been closed by cleanup and another one has failed
C12_Witness ==
    \E i, j \in 1..Len(inst) :
        /\ inst[i].state = "closed"
        /\ inst[j].state = "failed"

\* a server name the namespacing takes as valid: it does not hold the
\* separator
ValidServerName(s) == indexOf(s, SEP) = -1

\* C13: for every discovered tool of a connection with a valid server name
\* s and tool name t, splitting its namespaced name s + '__' + t at the
\* first separator, as callTool does, gives back exactly (s, t)
C13_NamespaceRoundTrip ==
    \A i \in 1..Len(inst) : \A j \in 1..Len(inst[i].tools) :
        LET T == inst[i].tools[j]
        IN ValidServerName(T.serverName) =>
            /\ T.name = Namespaced(T.serverName, T.originalName)
            /\ ParsedServerName(T.name) = T.serverName
            /\ ParsedToolName(T.name) = T.originalName

\* the timeout the handshake, the tool discovery and the tool calls of a
\* server have to respect: its configured timeout, DEFAULT_TIMEOUT if unset
TimeoutOf(name) ==
    IF ServerTimeout(name) = 0 THEN DEFAULT_TIMEOUT ELSE ServerTimeout(name)

\* C14: no connection attempt waits for the handshake or for the tool
\* listing longer than the timeout of its server (60000 ms when unset): by
\* then the attempt has ended, in state failed with a CONNECT_TIMEOUT error
\* if the provider did not answer
C14_ConnectTimeout ==
    \A l \in 1..MaxLoads : \A n \in DOMAIN loads[l].att :
        loads[l].att[n].pc \in {"connect", "list"} =>
            /\ inst[loads[l].att[n].inst].state \in {"connecting", "initialized"}
            /\ loads[l].att[n].elapsed <= TimeoutOf(n)

\* C15: no forwarded callTool waits for the provider longer than the
\* timeout of the server it was sent to (60000 ms when unset): by then it
\* has resolved, to a structured failure if the provider did not answer
C15_CallTimeout ==
    \A k \in 1..MaxCalls :
        calls[k].pc = "awaiting" =>
            calls[k].elapsed <= TimeoutOf(inst[calls[k].sentTo].name)

\* what discoverConfigs handed to mergeConfigs, and what mergeConfigs made
DiscoveredGlobal == startup.slots["global"].value

DiscoveredProject == startup.slots["project"].value

Merged == startup.merged.value

\* mergeConfigs has run
MergeDone == startup.pc \in {"loading", "ready", "error"}

\* an input of mergeConfigs as its signature has it: null or a config
ConfigOrNull(v) == v = Null \/ (v.type = "object" /\ v.hasServers)

\* C16: for inputs that are null or a config, a name present in the
\* project input has the project's entry as a whole and source 'project',
\* also when the global input has it too; a name only in the global input
\* has the global entry and source 'global'
C16_MergePrecedence ==
    (MergeDone /\ ConfigOrNull(DiscoveredGlobal) /\ ConfigOrNull(DiscoveredProject)) =>
        /\ ~startup.merged.threw
        /\ \A n \in EntryKeys(DiscoveredProject.mcpServers) :
            /\ EntryHas(Merged.mcpServers, n)
            /\ EntryGet(Merged.mcpServers, n) = EntryGet(DiscoveredProject.mcpServers, n)
            /\ n \in DOMAIN Merged.sources
            /\ Merged.sources[n] = "project"
        /\ \A n \in EntryKeys(DiscoveredGlobal.mcpServers) \ EntryKeys(DiscoveredProject.mcpServers) :
            /\ EntryHas(Merged.mcpServers, n)
            /\ EntryGet(Merged.mcpServers, n) = EntryGet(DiscoveredGlobal.mcpServers, n)
            /\ n \in DOMAIN Merged.sources
            /\ Merged.sources[n] = "global"

\* two configs were merged that share a name with different entries, the
\* global one having a field the project one lacks, and the global config
\* has a name of its own
C16_Witness ==
    /\ MergeDone
    /\ \E n \in EntryKeys(DiscoveredGlobal.mcpServers) \cap EntryKeys(DiscoveredProject.mcpServers) :
        /\ EntryGet(DiscoveredGlobal.mcpServers, n) = EntryEnv
        /\ EntryGet(DiscoveredProject.mcpServers, n) = EntryPlain
        /\ EntryGet(Merged.mcpServers, n) = EntryPlain
    /\ EntryKeys(DiscoveredGlobal.mcpServers) \ EntryKeys(DiscoveredProject.mcpServers) # {}

\* C17: for inputs that are null or a config, the keys of the merged
\* mcpServers are the union of the inputs' names, each key once, the keys
\* of sources are the same set, and two nulls give the empty MergedConfig
C17_MergeKeys ==
    (MergeDone /\ ConfigOrNull(DiscoveredGlobal) /\ ConfigOrNull(DiscoveredProject)) =>
        /\ ~startup.merged.threw
        /\ EntryKeys(Merged.mcpServers) =
                EntryKeys(DiscoveredGlobal.mcpServers) \cup EntryKeys(DiscoveredProject.mcpServers)
        /\ Len(Merged.mcpServers) = Cardinality(EntryKeys(Merged.mcpServers))
        /\ DOMAIN Merged.sources = EntryKeys(Merged.mcpServers)
        /\ (DiscoveredGlobal = Null /\ DiscoveredProject = Null) => Merged = EmptyMerged

\* a global config with one name and a project config with the other one
\* were merged into a config of two names
C17_Witness ==
    /\ MergeDone
    /\ Len(DiscoveredGlobal.mcpServers) = 1
    /\ Len(DiscoveredProject.mcpServers) = 1
    /\ Len(Merged.mcpServers) = 2

\* a document of the expected configuration structure
ExpectedStructure(v) == v.type = "object" /\ v.hasServers

\* C18: each slot that discoverConfigs has filled holds null or a document
\* of the expected structure; it holds null when the file is absent,
\* cannot be read, is no JSON or is JSON of another structure
C18_SlotNullOrConfig ==
    \A s \in Slots :
        startup.slots[s].pc = "fulfilled" =>
            /\ startup.slots[s].value = Null \/ ExpectedStructure(startup.slots[s].value)
            /\ (\/ startup.files[s].kind # "json"
                \/ ~ExpectedStructure(startup.files[s].value))
                    => startup.slots[s].value = Null

\* the value a slot has to hold given its own file alone
OwnValue(file) == IF file.kind = "json" THEN file.value ELSE Null

\* C19: the value of each slot is determined by the file of that slot
\* alone, whatever the other file is and in whatever order the two reads
\* settle, and neither loadConfigFile nor discoverConfigs rejects
C19_SlotsIndependent ==
    /\ \A s \in Slots :
        /\ startup.slots[s].pc # "rejected"
        /\ startup.slots[s].pc = "fulfilled" =>
                startup.slots[s].value = OwnValue(startup.files[s])
    /\ MergeDone => \A s \in Slots : startup.slots[s].pc = "fulfilled"

\* discoverConfigs has returned: one file was unreadable or no JSON, its
\* slot is null with a warning, and the other slot holds a config with a
\* server
C19_Witness ==
    /\ MergeDone
    /\ \E s, t \in Slots :
        /\ s # t
        /\ startup.files[s].kind \in {"unreadable", "garbage"}
        /\ startup.slots[s].value = Null
        /\ startup.slots[s].warned
        /\ ExpectedStructure(startup.slots[t].value)
        /\ Len(startup.slots[t].value.mcpServers) > 0

\* a file that is present and is no configuration
Malformed(file) ==
    \/ file.kind \in {"unreadable", "garbage"}
    \/ file.kind = "json" /\ ~ExpectedStructure(file.value)

\* the document a file stands for when a malformed file counts as absent
AbsentIfMalformed(file) == IF Malformed(file) THEN Null ELSE OwnValue(file)

\* C20: the startup path never raises, whatever the two files hold: the
\* merged config is the one of the well-formed sources, a malformed source
\* counting as absent, and with two malformed sources startup goes on with
\* the empty MergedConfig
C20_StartupNeverRaises ==
    /\ startup.pc # "error"
    /\ MergeDone =>
        /\ ~startup.merged.threw
        /\ Merged = mergeConfigs(AbsentIfMalformed(startup.files["global"]),
                                 AbsentIfMalformed(startup.files["project"])).value
        /\ (\A s \in Slots : Malformed(startup.files[s])) =>
            /\ Merged = EmptyMerged
            /\ startup.pc = "ready"

Validated == ret.op = "validateConfig"

\* the rules of a valid configuration, one by one
NamesMatch(config) ==
    \A i \in 1..Len(config.mcpServers) : MatchesPattern(config.mcpServers[i].name)

CommandsNonEmpty(config) ==
    \A i \in 1..Len(config.mcpServers) :
        /\ config.mcpServers[i].config.hasCommand
        /\ config.mcpServers[i].config.command # ""

EnvValuesStrings(config) ==
    \A i \in 1..Len(config.mcpServers) :
        config.mcpServers[i].config.envType \in {"none", "string"}

TimeoutsAtLeastMinimum(config) ==
    \A i \in 1..Len(config.mcpServers) :
        config.mcpServers[i].config.hasTimeout =>
            config.mcpServers[i].config.timeout >= 1000

\* C21: validateConfig(config).valid is true exactly when mcpServers is
\* present, every server name matches the naming pattern, every entry has a
\* non-empty command, every env value is a string and every timeout that
\* is present is at least 1000 ms
C21_ValidIffRules ==
    Validated =>
        (ret.val.result.valid <=>
            /\ ret.val.config.hasServers
            /\ NamesMatch(ret.val.config)
            /\ CommandsNonEmpty(ret.val.config)
            /\ EnvValuesStrings(ret.val.config)
            /\ TimeoutsAtLeastMinimum(ret.val.config))

\* a config whose only flaw is a timeout of 500 ms was found invalid
C21_Witness ==
    /\ Validated
    /\ ~ret.val.result.valid
    /\ Len(ret.val.config.mcpServers) = 1
    /\ ret.val.config.mcpServers[1].name = NameA
    /\ ret.val.config.mcpServers[1].config =
            [hasCommand |-> TRUE, command |-> "npx", envType |-> "string",
             hasTimeout |-> TRUE, timeout |-> ShortTimeout]

\* the rules a document violates, each with the server it is violated at
ViolatedRules(config) ==
    IF ~config.hasServers THEN {<<"mcpServers", <<>>>>}
    ELSE UNION {
        LET name == config.mcpServers[i].name
            entry == config.mcpServers[i].config
        IN {r \in {<<"name", name>>, <<"command", name>>, <<"env", name>>, <<"timeout", name>>} :
                \/ r[1] = "name" /\ ~MatchesPattern(name)
                \/ r[1] = "command" /\ (~entry.hasCommand \/ entry.command = "")
                \/ r[1] = "env" /\ entry.envType \notin {"none", "string"}
                \/ r[1] = "timeout" /\ entry.hasTimeout /\ entry.timeout < 1000}
        : i \in 1..Len(config.mcpServers)}

\* C22: the errors of validateConfig have an entry for every violated rule
\* of the config, not only for the first one, and errors is empty exactly
\* when valid is true
C22_AllViolationsReported ==
    Validated =>
        /\ \A r \in ViolatedRules(ret.val.config) :
                \E e \in ret.val.result.errors : e.field = r[1] /\ e.server = r[2]
        /\ (ret.val.result.errors = {}) <=> ret.val.result.valid

\* a config of two servers that violates four rules was validated and four
\* errors were returned
C22_Witness ==
    /\ Validated
    /\ Len(ret.val.config.mcpServers) = 2
    /\ Cardinality(ViolatedRules(ret.val.config)) = 4
    /\ Cardinality(ret.val.result.errors) = 4

C24_ClosedTaxonomy ==
    /\ LoadReturned =>
        \A j \in 1..Len(ret.val.errors) : ret.val.errors[j].code \in MCP_ERROR_CODES
    /\ (CallReturned /\ ~ret.val.result.success) =>
        ret.val.result.code \in MCP_ERROR_CODES

\* the names whose attempt in the returned load succeeded
SucceededNames(v) == {n \in DOMAIN v.att : v.att[n].error = NoError}

\* C25: after a load has returned getServerStatus(n) is a connection for
\* every name whose attempt succeeded, and undefined for every name whose
\* attempt failed and for every name that was never configured
C25_StatusExactlySucceeded ==
    LoadReturned =>
        \A n \in ServerNames :
            /\ n \in SucceededNames(ret.val) => getServerStatus(n) # 0
            /\ n \in FailedNames(ret.val) => getServerStatus(n) = 0
            /\ (\A i \in 1..Len(inst) : inst[i].name # n) => getServerStatus(n) = 0

\* the number of tools on the connections of a servers list
RECURSIVE ToolsOn(_)
ToolsOn(list) ==
    IF list = <<>> THEN 0
    ELSE Len(inst[Head(list)].tools) + ToolsOn(Tail(list))

\* C26: the toolCount of a LoadResult is the number of tools on the
\* connections of its servers list; it is 0 when every attempt failed or
\* the config was empty, whatever the manager held before the call
C26_ToolCountOfResult ==
    LoadReturned =>
        /\ ret.val.toolCount = ToolsOn(ret.val.servers)
        /\ ret.val.servers = <<>> => ret.val.toolCount = 0

\* the attempts of the loads in flight and of the load that just returned
AttemptsOf(i) ==
    {a \in UNION {{loads[l].att[n] : n \in DOMAIN loads[l].att} : l \in 1..MaxLoads}
            \cup (IF LoadReturned THEN {ret.val.att[n] : n \in DOMAIN ret.val.att} ELSE {}) :
        a.inst = i}

\* C27: a connection has tools only once its whole tool listing succeeded
\* (it is operating, or closed afterwards); a failed connection has no
\* tools and an error record, and its attempt has received the exception:
\* it is in the catch block or has recorded the error
C27_NoPartialTools ==
    \A i \in 1..Len(inst) :
        /\ inst[i].tools # <<>> => inst[i].state \in {"operating", "closed"}
        /\ inst[i].state \in {"connecting", "initialized"} => inst[i].error = NoError
        /\ inst[i].state = "failed" =>
            /\ inst[i].tools = <<>>
            /\ inst[i].error # NoError
            /\ \A a \in AttemptsOf(i) :
                /\ a.pc \in {"thrown", "fulfilled"}
                /\ a.error # NoError
                /\ a.error.message = inst[i].error.message

\* in a load in flight one attempt has failed and has been thrown to the
\* caller of connectServer, its sibling is operating with its tools
C27_Witness ==
    \E l \in 1..MaxLoads : \E n, m \in DOMAIN loads[l].att :
        /\ loads[l].att[n].pc = "thrown"
        /\ inst[loads[l].att[n].inst].state = "failed"
        /\ inst[loads[l].att[n].inst].tools = <<>>
        /\ inst[loads[l].att[m].inst].state = "operating"
        /\ inst[loads[l].att[m].inst].tools # <<>>

\* the codes the taxonomy has for the class of a thrown error: a spawn
\* that found no command (ENOENT), a request that timed out, anything else
CodesOfClass(e) ==
    IF e.code = "ENOENT" THEN {"COMMAND_NOT_FOUND"}
    ELSE IF e.message = "Request timed out" THEN {"CONNECT_TIMEOUT"}
    ELSE {"SPAWN_FAILED", "INITIALIZE_FAILED"}

\* C28: for every failed attempt of a returned load, the error attached to
\* the connection and the ServerError of the result both carry the code of
\* the class of the failure
C28_CodeByFailureClass ==
    LoadReturned =>
        \A n \in FailedNames(ret.val) :
            /\ inst[ret.val.att[n].inst].error.code \in CodesOfClass(ret.val.att[n].error)
            /\ \A j \in ErrorsNaming(ret.val, n) :
                    ret.val.errors[j].code \in CodesOfClass(ret.val.att[n].error)

\* C29: no step of callTool (the checks and the forwarding, the return of a
\* response, the return of a failure), and no step during which a call
\* stays pending or is left pending for good, changes the state of any
\* connection, the registry or the tool index
C29_CallToolFrame ==
    [][(\/ \E k \in 1..MaxCalls, toolName \in CallNames, args \in Args :
            CallToolStart(k, toolName, args)
        \/ \E k \in 1..MaxCalls, content \in Contents : CallToolResolve(k, content)
        \/ \E k \in 1..MaxCalls, e \in Errors : CallToolCatch(k, e)
        \/ calls' # calls
        \/ ret'.op = "callTool")
            => UNCHANGED <<servers, tools, inst>>]_vars

\* a forwarded call has failed and returned, and the connection it was
\* sent to is still registered and operating
C29_Witness ==
    /\ CallReturned
    /\ ret.val.sentTo # 0
    /\ ~ret.val.result.success
    /\ inst[ret.val.sentTo].state = "operating"
    /\ ret.val.sentTo \in MapValues(servers)

\* connection i has a provider process: its handshake completed, or it
\* failed with something other than the spawn error of a missing command
Spawned(i) ==
    \/ inst[i].state \in {"initialized", "operating", "closed"}
    \/ /\ inst[i].state = "failed"
       /\ inst[i].error.message # "spawn ENOENT"

\* C30: once cleanup has returned with no load in flight, close has been
\* called on every connection whose process was spawned, those that failed
\* during the handshake or the tool listing included
C30_SpawnedAreClosed ==
    (ret.op = "cleanup" /\ \A l \in 1..MaxLoads : loads[l].pc = "idle") =>
        \A i \in 1..Len(inst) : Spawned(i) => inst[i].closeCalls >= 1

\* a loadFromConfig has returned its LoadResult, no call is in flight, and a
\* cleanup ran while that load was in flight: a connection the load
\* registered has had close called on it or is no longer in the registry
LoadOverlappedCleanup ==
    /\ LoadReturned
    /\ ret.val.outcome = "fulfilled"
    /\ \A l \in 1..MaxLoads : loads[l].pc = "idle"
    /\ \A c \in 1..MaxCleanups : cleanups[c].pc = "idle"
    /\ \E i \in SeqRange(ret.val.servers) :
            i \notin MapValues(servers) \/ inst[i].closeCalls > 0

\* C31: once a loadFromConfig and the cleanup that ran during it have both
\* completed, close has been called on every connection the load brought to
\* operating and the registry and the tool index are empty
C31_CleanupDuringLoad ==
    LoadOverlappedCleanup =>
        /\ servers = <<>>
        /\ tools = EmptyMap
        /\ \A i \in SeqRange(ret.val.servers) : inst[i].closeCalls >= 1

\* connection i is operating and close has never been called on it
Live(i) == inst[i].state = "operating" /\ inst[i].closeCalls = 0

\* C32: the step that registers a connection leaves every live connection
\* that was the registry entry of its name in the registry, so that the
\* next cleanup closes it: no live connection is dropped by a registration
C32_RegisterKeepsLive ==
    [][\A l \in 1..MaxLoads, n \in ServerNames :
            AttemptRegister(l, n) =>
                \A i \in MapValues(servers) : Live(i) => i \in MapValues(servers')]_vars

\* C33: close is invoked at most once on every connection's client
C33_ClosedAtMostOnce ==
    \A i \in 1..Len(inst) : inst[i].closeCalls <= 1

GetToolsReturned == ret.op = "getTools"

\* C34: immediately after a getTools call the keys of the tool index are
\* exactly the names of the tools the call returned
C34_IndexRebuiltOnRead ==
    GetToolsReturned =>
        DOMAIN tools = {ret.val[j].name : j \in 1..Len(ret.val)}

\* C35: every ToolResult callTool returns carries a metadata record
C35_MetadataOnEveryPath ==
    (CallReturned /\ ~ret.val.threw) => ret.val.result.hasMetadata

\* C36: the arguments of the request executeTool causes the manager to
\* forward are exactly the parsed JSON arguments of the ToolCall
C36_ForwardsParsedArgs ==
    [][\A k \in 1..MaxCalls, toolCall \in ToolCalls :
            (ExecuteTool(k, toolCall) /\ calls'[k].pc = "awaiting") =>
                /\ DOMAIN calls'[k].sentArgs = DOMAIN JsonParse(toolCall.arguments).value
                /\ \A key \in DOMAIN JsonParse(toolCall.arguments).value :
                        calls'[k].sentArgs[key] = JsonParse(toolCall.arguments).value[key]]_vars

\* connection i is a target of a cleanup that has not yet cleared the
\* registry
BeingCleaned(i) ==
    \E c \in DOMAIN cleanups : cleanups[c].pc = "closing" /\ i \in cleanups[c].targets

RegistryReachedOperating ==
    \A i \in MapValues(servers) :
        \/ inst[i].state = "operating"
        \/ inst[i].state = "closed" /\ BeingCleaned(i)

\* C37: every connection in the registry is operating, or closed by a
\* cleanup that has not yet cleared the registry; and a connection enters
\* the registry in the very step in which it enters the servers list of its
\* load
C37_RegistryOnlyOperating ==
    /\ []RegistryReachedOperating
    /\ [][\A i \in 1..Len(inst') :
            (i \in MapValues(servers') /\ i \notin MapValues(servers))
                <=> \E l \in 1..MaxLoads :
                        /\ i \in SeqRange(loads'[l].servers)
                        /\ i \notin SeqRange(loads[l].servers)]_vars

\* the registry holds a connection a running cleanup has closed, and a
\* failed connection exists that is not in the registry
C37_Witness ==
    /\ \E i \in MapValues(servers) : inst[i].state = "closed"
    /\ \E j \in 1..Len(inst) : inst[j].state = "failed" /\ j \notin MapValues(servers)

ConnectServerReturned == ret.op = "connectServer"

\* a step of a connectServer call that loadFromConfig did not make
DirectStep ==
    \/ \E l \in 1..MaxLoads, name \in ServerNames : ConnectServerStart(l, name)
    \/ \E l \in 1..MaxLoads, n \in ServerNames : ConnectServerReturn(l, n)
    \/ \E l \in 1..MaxLoads :
            /\ loads[l].pc = "direct"
            /\ loads'[l] # loads[l]

\* C38: no step of a connectServer call made on its own changes the
\* registry or the tool index; the connection such a call returns is not in
\* the registry, no entry of the tool index belongs to it and close has not
\* been called on it; and only the success continuation of a running
\* loadFromConfig puts a connection into the registry
C38_ConnectServerFrame ==
    [][/\ DirectStep => UNCHANGED <<servers, tools>>
       /\ ret'.op = "connectServer" =>
            /\ ret'.val.inst \notin MapValues(servers')
            /\ getServerStatus(ret'.val.name) # ret'.val.inst
            /\ \A k \in DOMAIN tools' : tools'[k].server # ret'.val.inst
            /\ inst'[ret'.val.inst].closeCalls = 0
       /\ \A i \in MapValues(servers') \ MapValues(servers) :
            \E l \in 1..MaxLoads, n \in ServerNames :
                /\ loads[l].pc = "running"
                /\ AttemptRegister(l, n)
                /\ loads[l].att[n].inst = i]_vars

\* connectServer called on its own has returned an operating connection
\* with tools, while the registry holds another connection of that name
C38_Witness ==
    /\ ConnectServerReturned
    /\ ~ret.val.threw
    /\ inst[ret.val.inst].state = "operating"
    /\ inst[ret.val.inst].tools # <<>>
    /\ getServerStatus(ret.val.name) \notin {0, ret.val.inst}

====
